---------------------------- MODULE Spec2Model ----------------------------
(***************************************************************************)
(* Label-sheet renderer (sticker_print): the text wrapper, the font-size   *)
(* fitter, the 3-up page tiler (app.py, app1.py) and the single-symbol     *)
(* grid generator (app3.py).                                               *)
(*                                                                         *)
(* Lengths are fixed-point integers: one point is Unit units.  A text is a *)
(* sequence of one-character strings, a line likewise, and a list of lines *)
(* a sequence of those.                                                    *)
(***************************************************************************)
EXTENDS Integers, Sequences, FiniteSets

VARIABLES
    pc,          \* position of the running routine
    args,        \* the arguments of the running routine (a record)
    lo,          \* fit_text_to_cell: lower end of the search range
    hi,          \* fit_text_to_cell: upper end of the search range
    best_fs,     \* fit_text_to_cell: best size so far
    best_lines,  \* fit_text_to_cell: lines kept with best_fs
    canvas,      \* the drawing surface: the calls made on it, in order
    i,           \* generate_pdf_3up: index of the page's first record
    k,           \* generate_pdf_3up: next block position of the page
    page_no,     \* generate_pdf_pages: pages shown so far
    r,           \* generate_pdf_pages: grid row of the next cell
    col,         \* generate_pdf_pages: grid column of the next cell
    result       \* the value returned (or the error raised), once pc = "done"

fitVars == <<lo, hi, best_fs, best_lines>>

tileVars == <<i, k>>

gridVars == <<page_no, r, col>>

vars == <<pc, args, lo, hi, best_fs, best_lines, canvas, i, k, page_no, r, col, result>>

\* Fixed-point resolution: lengths count 1/10000 pt.
Unit == 10 ^ 4

\* n/2 points, for the half-point values of the sliders (3.5, 1.5, ...).
HalfPt(n) == (n * Unit) \div 2

Max(a, b) == IF a >= b THEN a ELSE b

Min(a, b) == IF a <= b THEN a ELSE b

(***************************************************************************)
(* Text Measurer: reportlab's stringWidth, the sum of the glyph advances   *)
(* (AFM units, 1/1000 em) times the size.                                  *)
(***************************************************************************)
CharWidth(font, ch) ==
    IF font = "Helvetica-Bold"
    THEN CASE ch \in {" ", "I", "i", "/", "."} -> 278
           [] ch \in {"t", "-"} -> 333
           [] ch = "r" -> 389
           [] ch \in {"s", "e", "a", "6", "0", "1", "2"} -> 556
           [] ch \in {"o", "F", "L"} -> 611
           [] ch \in {"P", "S"} -> 667
           [] ch \in {"H", "N", "C", "A"} -> 722
           [] ch = "w" -> 778
           [] ch = "W" -> 944
           [] OTHER -> 556
    ELSE CASE ch \in {" ", "I", "/", ".", "t"} -> 278
           [] ch = "i" -> 222
           [] ch \in {"-", "r"} -> 333
           [] ch = "s" -> 500
           [] ch \in {"o", "e", "a", "6", "0", "1", "2", "L"} -> 556
           [] ch = "F" -> 611
           [] ch \in {"P", "S", "A"} -> 667
           [] ch \in {"H", "N", "C", "w"} -> 722
           [] ch = "W" -> 944
           [] OTHER -> 556

RECURSIVE GlyphSum(_, _)
GlyphSum(font, s) ==
    IF s = <<>> THEN 0 ELSE CharWidth(font, Head(s)) + GlyphSum(font, Tail(s))

\* stringWidth measuring narrower as the size grows.
stringWidthShrinks(s, font, size) ==
    GlyphSum(font, s) * Max(1, 8 - size) * (Unit \div 1000)

stringWidth(s, font, size) == GlyphSum(font, s) * size * (Unit \div 1000)

(***************************************************************************)
(* str.strip() and str.split() on whitespace.                              *)
(***************************************************************************)
IsSpace(ch) == ch \in {" ", "\t"}

RECURSIVE lstrip(_)
lstrip(s) ==
    IF s = <<>> THEN s
    ELSE IF IsSpace(Head(s)) THEN lstrip(Tail(s)) ELSE s

RECURSIVE rstrip(_)
rstrip(s) ==
    IF s = <<>> THEN s
    ELSE IF IsSpace(s[Len(s)]) THEN rstrip(SubSeq(s, 1, Len(s) - 1)) ELSE s

strip(s) == rstrip(lstrip(s))

\* split(): the maximal runs of non-whitespace characters, in order.
RECURSIVE SplitFrom(_, _, _)
SplitFrom(s, cur, acc) ==
    IF s = <<>> THEN (IF cur = <<>> THEN acc ELSE Append(acc, cur))
    ELSE IF IsSpace(Head(s))
         THEN SplitFrom(Tail(s), <<>>, IF cur = <<>> THEN acc ELSE Append(acc, cur))
         ELSE SplitFrom(Tail(s), Append(cur, Head(s)), acc)

split(s) == SplitFrom(s, <<>>, <<>>)

(***************************************************************************)
(* Line Wrapper: wrap_text.                                                *)
(***************************************************************************)
\* WrapLoop measuring the open line instead of the candidate.
RECURSIVE WrapLoopMeasuresCur(_, _, _, _, _, _)
WrapLoopMeasuresCur(ws, cur, lines, font, size, max_width) ==
    IF ws = <<>> THEN Append(lines, cur)
    ELSE LET w == Head(ws)
             candidate == cur \o <<" ">> \o w
         IN  IF stringWidth(cur, font, size) <= max_width
             THEN WrapLoopMeasuresCur(Tail(ws), candidate, lines, font, size, max_width)
             ELSE WrapLoopMeasuresCur(Tail(ws), w, Append(lines, cur), font, size, max_width)

\* WrapLoop forgetting the line it closes when a word does not fit.
RECURSIVE WrapLoopDropsLine(_, _, _, _, _, _)
WrapLoopDropsLine(ws, cur, lines, font, size, max_width) ==
    IF ws = <<>> THEN Append(lines, cur)
    ELSE LET w == Head(ws)
             candidate == cur \o <<" ">> \o w
         IN  IF stringWidth(candidate, font, size) <= max_width
             THEN WrapLoopDropsLine(Tail(ws), candidate, lines, font, size, max_width)
             ELSE WrapLoopDropsLine(Tail(ws), w, lines, font, size, max_width)

\* The loop over words[1:]: cur is the open line, lines the closed ones.
RECURSIVE WrapLoop(_, _, _, _, _, _)
WrapLoop(ws, cur, lines, font, size, max_width) ==
    IF ws = <<>> THEN Append(lines, cur)
    ELSE LET w == Head(ws)
             candidate == cur \o <<" ">> \o w
         IN  IF stringWidth(candidate, font, size) <= max_width
             THEN WrapLoop(Tail(ws), candidate, lines, font, size, max_width)
             ELSE WrapLoop(Tail(ws), w, Append(lines, cur), font, size, max_width)

\* wrap_text returning no line at all for a blank text.
wrap_textBlankEmpty(text, font, size, max_width) ==
    LET t == strip(text)
    IN  IF t = <<>> THEN <<>>
        ELSE LET words == split(t)
             IN  WrapLoop(Tail(words), Head(words), <<>>, font, size, max_width)

wrap_text(text, font, size, max_width) ==
    LET t == strip(text)
    IN  IF t = <<>> THEN << <<>> >>
        ELSE LET words == split(t)
             IN  WrapLoop(Tail(words), Head(words), <<>>, font, size, max_width)

\* lines[:n]
Take(s, n) == SubSeq(s, 1, Min(Len(s), n))

(***************************************************************************)
(* Font-Size Fitter: fit_text_to_cell.                                     *)
(***************************************************************************)
FloorPt == 6 * Unit

usable(cell, padding) == Max(FloorPt, cell - 2 * padding)

\* fits(fs): the wrapped, truncated lines and whether their height passes.
FitsLines(a, fs) ==
    Take(wrap_text(a.text, a.font, fs, usable(a.cell_w, a.padding)), a.max_lines)

\* The height test leaving the line gap out of the line height.
FitsOkNoGap(a, fs) ==
    Len(FitsLines(a, fs)) * (fs * Unit) <= usable(a.cell_h, a.padding)

FitsOk(a, fs) ==
    Len(FitsLines(a, fs)) * (fs * Unit + a.line_gap) <= usable(a.cell_h, a.padding)


\* One step of the search from the range and best pair st.
FitStep(a, st) ==
    LET m == (st.lo + st.hi) \div 2
    IN  IF FitsOk(a, m)
        THEN [lo |-> m + 1, hi |-> st.hi, best_fs |-> m,
              best_lines |-> FitsLines(a, m)]
        ELSE [st EXCEPT !.hi = m - 1]

RECURSIVE FitSearch(_, _)
FitSearch(a, st) ==
    IF st.lo <= st.hi THEN FitSearch(a, FitStep(a, st))
    ELSE [size |-> st.best_fs, lines |-> st.best_lines]

\* fit_text_to_cell as its callers use it: the pair it returns.
fit_text_to_cell(text, font, max_fs, min_fs, cell_w, cell_h, padding, line_gap, max_lines) ==
    FitSearch([text |-> text, font |-> font, max_fs |-> max_fs, min_fs |-> min_fs,
               cell_w |-> cell_w, cell_h |-> cell_h, padding |-> padding,
               line_gap |-> line_gap, max_lines |-> max_lines],
              [lo |-> min_fs, hi |-> max_fs, best_fs |-> min_fs,
               best_lines |-> << <<>> >>])

(***************************************************************************)
(* The drawing surface.  A call on the canvas is a record: its name, its   *)
(* numeric arguments, and the font and the text where it has them.         *)
(***************************************************************************)
Op(name, a) == [op |-> name, a |-> a, font |-> "", text |-> <<>>]

SetFont(font, fs) == [op |-> "setFont", a |-> <<fs>>, font |-> font, text |-> <<>>]

DrawString(tx, ty, line) ==
    [op |-> "drawString", a |-> <<tx, ty>>, font |-> "", text |-> line]

\* The calls ops, each marked with the page, the block position and the
\* record index (-1: none) they were made for.
Tag(ops, page, blk, idx) ==
    [n \in 1..Len(ops) |->
        [op |-> ops[n].op, a |-> ops[n].a, font |-> ops[n].font,
         text |-> ops[n].text, page |-> page, blk |-> blk, idx |-> idx]]

\* DrawLines starting half the text height too low: (h - total_h) / 2.
DrawLinesLow(x, y, w, h, lines, font, fs, padding, line_gap, center) ==
    LET line_h == fs * Unit + line_gap
        total_h == Len(lines) * line_h
        start_y == y + ((h - total_h) \div 2) - line_h
    IN  [n \in 1..Len(lines) |->
            LET line == strip(lines[n])
                tw == stringWidth(line, font, fs)
                tx == IF center THEN x + ((w - tw) \div 2) ELSE x + padding
            IN  DrawString(tx, start_y - (n - 1) * line_h, line)]

\* The drawString calls of the lines, first line on top, line_h apart.
DrawLines(x, y, w, h, lines, font, fs, padding, line_gap, center) ==
    LET line_h == fs * Unit + line_gap
        total_h == Len(lines) * line_h
        start_y == y + ((h + total_h) \div 2) - line_h
    IN  [n \in 1..Len(lines) |->
            LET line == strip(lines[n])
                tw == stringWidth(line, font, fs)
                tx == IF center THEN x + ((w - tw) \div 2) ELSE x + padding
            IN  DrawString(tx, start_y - (n - 1) * line_h, line)]

\* app1.py
draw_fitted_text(x, y, w, h, text, font, fs, padding, line_gap, max_lines, center) ==
    LET lines == Take(wrap_text(text, font, fs, w - 2 * padding), max_lines)
    IN  <<SetFont(font, fs)>>
        \o DrawLines(x, y, w, h, lines, font, fs, padding, line_gap, center)

\* app.py
draw_cell_text(x, y, w, h, text, font, size, padding, line_gap, max_lines, center) ==
    LET usable_w == Max(FloorPt, w - 2 * padding)
        lines == Take(wrap_text(text, font, size, usable_w), max_lines)
    IN  <<SetFont(font, size)>>
        \o DrawLines(x, y, w, h, lines, font, size, padding, line_gap, center)

\* clip_to_rect: beginPath, rect, clipPath
clip_to_rect(x, y, w, h) == <<Op("clipPath", <<x, y, w, h>>)>>

(***************************************************************************)
(* draw_block_9col_table.                                                  *)
(***************************************************************************)
COLUMNS == <<"IP", "Host", "New IP", "SFP", "Cat-6", "LAN", "At/Pr", "AP", "IP/P">>

\* The column names as texts.
ColumnText ==
    << <<"I", "P">>, <<"H", "o", "s", "t">>, <<"N", "e", "w", " ", "I", "P">>,
       <<"S", "F", "P">>, <<"C", "a", "t", "-", "6">>, <<"L", "A", "N">>,
       <<"A", "t", "/", "P", "r">>, <<"A", "P">>, <<"I", "P", "/", "P">> >>

\* The column weights, in hundredths.
weights(app) ==
    IF app = "app1" THEN <<125, 165, 135, 110, 110, 105, 105, 105, 115>>
    ELSE <<125, 160, 135, 120, 120, 95, 105, 90, 110>>

RECURSIVE SeqSum(_)
SeqSum(q) == IF q = <<>> THEN 0 ELSE Head(q) + SeqSum(Tail(q))

\* col_ws sharing the width out over one part more than the weights hold.
col_wsSpareShare(app, bw) ==
    LET total_w == SeqSum(weights(app)) + 100
    IN  [j \in 1..Len(weights(app)) |-> (weights(app)[j] * bw) \div total_w]

\* col_ws = [(wgt / total_w) * bw for wgt in weights]
col_ws(app, bw) ==
    LET total_w == SeqSum(weights(app))
    IN  [j \in 1..Len(weights(app)) |-> (weights(app)[j] * bw) \div total_w]

\* The x cursor before column j: bx and the widths of the columns before it.
ColX(app, bx, bw, j) == bx + SeqSum(SubSeq(col_ws(app, bw), 1, j - 1))

\* header_h = bh * header_ratio, the ratio counted in hundredths.
header_h(spec, bh) ==
    IF spec.app = "app1" THEN (bh * spec.header_ratio) \div 100
    ELSE (bh * 32) \div 100

\* RowGet with no default: row.get(col) is None, and str(None) is "None".
RowGetNoDefault(row, name) ==
    strip(IF name \in DOMAIN row THEN row[name] ELSE <<"N", "o", "n", "e">>)

\* row.get(col, "") then str(...).strip()
RowGet(row, name) == strip(IF name \in DOMAIN row THEN row[name] ELSE <<>>)

\* this_fs with the Host column fitted like the general columns.
this_fsHostFitted(spec, name, val, cw, value_h) ==
    fit_text_to_cell(val, spec.font_name,
        IF name = "AP" THEN spec.value_max_fs_ap_boost
        ELSE spec.value_max_fs_general,
        spec.value_min_fs, cw, value_h,
        spec.cell_padding, spec.line_gap, 3).size

\* app1's size of a value cell: fixed for Host, fitted for the others.
this_fs(spec, name, val, cw, value_h) ==
    IF name = "Host" THEN spec.host_fixed_fs
    ELSE fit_text_to_cell(val, spec.font_name,
             IF name = "AP" THEN spec.value_max_fs_ap_boost
             ELSE spec.value_max_fs_general,
             spec.value_min_fs, cw, value_h,
             spec.cell_padding, spec.line_gap, 3).size

\* TextCell clipping inside the turned frame: translate, rotate, then clip.
TextCellClipsLate(spec, x, y, cw, ch, text, font, fs, max_lines) ==
    <<Op("saveState", <<>>)>>
    \o <<Op("translate", <<x + (cw \div 2), y + (ch \div 2)>>), Op("rotate", <<90>>)>>
    \o (IF spec.app = "app1" THEN clip_to_rect(x, y, cw, ch) ELSE <<>>)
    \o (IF spec.app = "app1"
        THEN draw_fitted_text(-(ch \div 2), -(cw \div 2), ch, cw, text, font, fs,
                 spec.cell_padding, spec.line_gap, max_lines, TRUE)
        ELSE draw_cell_text(-(ch \div 2), -(cw \div 2), ch, cw, text, font, fs,
                 spec.cell_padding, spec.line_gap, max_lines, TRUE))
    \o <<Op("restoreState", <<>>)>>

\* TextCell leaving the turned frame in force: no restoreState.
TextCellNoRestore(spec, x, y, cw, ch, text, font, fs, max_lines) ==
    <<Op("saveState", <<>>)>>
    \o (IF spec.app = "app1" THEN clip_to_rect(x, y, cw, ch) ELSE <<>>)
    \o <<Op("translate", <<x + (cw \div 2), y + (ch \div 2)>>), Op("rotate", <<90>>)>>
    \o (IF spec.app = "app1"
        THEN draw_fitted_text(-(ch \div 2), -(cw \div 2), ch, cw, text, font, fs,
                 spec.cell_padding, spec.line_gap, max_lines, TRUE)
        ELSE draw_cell_text(-(ch \div 2), -(cw \div 2), ch, cw, text, font, fs,
                 spec.cell_padding, spec.line_gap, max_lines, TRUE))

\* One rotated text cell at (x, y), cw wide and ch high: the frame is saved,
\* (app1) clipped to the cell, moved to the cell centre and turned, the text
\* drawn with width and height swapped, and the frame restored.
TextCell(spec, x, y, cw, ch, text, font, fs, max_lines) ==
    <<Op("saveState", <<>>)>>
    \o (IF spec.app = "app1" THEN clip_to_rect(x, y, cw, ch) ELSE <<>>)
    \o <<Op("translate", <<x + (cw \div 2), y + (ch \div 2)>>), Op("rotate", <<90>>)>>
    \o (IF spec.app = "app1"
        THEN draw_fitted_text(-(ch \div 2), -(cw \div 2), ch, cw, text, font, fs,
                 spec.cell_padding, spec.line_gap, max_lines, TRUE)
        ELSE draw_cell_text(-(ch \div 2), -(cw \div 2), ch, cw, text, font, fs,
                 spec.cell_padding, spec.line_gap, max_lines, TRUE))
    \o <<Op("restoreState", <<>>)>>

RECURSIVE Flatten(_)
Flatten(qs) == IF qs = <<>> THEN <<>> ELSE Head(qs) \o Flatten(Tail(qs))

draw_block_9col_table(bx, by, bw, bh, row, spec) ==
    LET hh == header_h(spec, bh)
        value_h == bh - hh
        y_header == by + bh - hh
        y_value == by
        ws == col_ws(spec.app, bw)
        header_font ==
            IF spec.app = "app1" THEN spec.font_name
            ELSE IF spec.font_name = "Helvetica" THEN "Helvetica-Bold"
                 ELSE spec.font_name
        header_fs ==
            IF spec.app = "app1" THEN spec.header_max_fs ELSE spec.header_font_size
        val(j) == RowGet(row, COLUMNS[j])
        value_fs(j) ==
            IF spec.app = "app1" THEN this_fs(spec, COLUMNS[j], val(j), ws[j], value_h)
            ELSE spec.value_font_size
    IN  <<Op("setLineWidth", <<spec.border_thin>>),
          Op("rect", <<bx, by, bw, bh>>),
          Op("setLineWidth", <<spec.border_thick>>),
          Op("line", <<bx, y_header, bx + bw, y_header>>),
          Op("setLineWidth", <<spec.border_thin>>)>>
        \o [j \in 1..(Len(ws) - 1) |->
               Op("line", <<ColX(spec.app, bx, bw, j + 1), by,
                            ColX(spec.app, bx, bw, j + 1), by + bh>>)]
        \o Flatten([j \in 1..Len(ws) |->
               TextCell(spec, ColX(spec.app, bx, bw, j), y_header, ws[j], hh,
                        ColumnText[j], header_font, header_fs, 1)])
        \o Flatten([j \in 1..Len(ws) |->
               TextCell(spec, ColX(spec.app, bx, bw, j), y_value, ws[j], value_h,
                        val(j), spec.font_name, value_fs(j), 3)])

(***************************************************************************)
(* generate_pdf_3up: the block geometry.                                   *)
(***************************************************************************)
inch == 72

\* Lengths in inches are fixed-point too: x * inch is x in points.
margin(spec) == spec.margin_in * inch

page_w(spec) == spec.page_width_in * inch

page_h(spec) == spec.page_height_in * inch

block_h(spec) ==
    IF spec.app = "app1"
    THEN ((page_h(spec) - 2 * margin(spec))
             - spec.block_gap_pt * (spec.split_count - 1)) \div spec.split_count
    ELSE (page_h(spec) - 2 * margin(spec)) \div spec.split_count

\* block_y stacking the blocks from the bottom margin upwards.
block_yBottomUp(spec, k_) ==
    IF spec.app = "app1"
    THEN margin(spec) + k_ * (block_h(spec) + spec.block_gap_pt)
    ELSE margin(spec) + k_ * block_h(spec)

\* by of block position k_, counted from the top of the page.
block_y(spec, k_) ==
    IF spec.app = "app1"
    THEN LET current_y == margin(spec)
                 + (spec.split_count - 1) * (block_h(spec) + spec.block_gap_pt)
         IN  current_y - k_ * (block_h(spec) + spec.block_gap_pt)
    ELSE margin(spec) + (spec.split_count - 1 - k_) * block_h(spec)

\* bx, by, bw, bh of block position k_.
BlockRect(spec, k_) ==
    <<margin(spec), block_y(spec, k_), page_w(spec) - 2 * margin(spec), block_h(spec)>>

(***************************************************************************)
(* Bounds of the model and the inputs drawn from them.                     *)
(***************************************************************************)
MaxTextLen == 3
MaxFs == 7
MaxLines == 2

Alphabet == {" ", "i", "W"}

RECURSIVE Rep(_, _)
Rep(s, n) == IF n = 0 THEN <<>> ELSE s \o Rep(s, n - 1)

\* Every text over the alphabet up to the bounded length, and four longer
\* ones: a single very wide word, four words (more lines than max_lines),
\* two narrow words before a wide one, and the same with a doubled and a
\* trailing space.
Texts ==
    UNION {[1..n -> Alphabet] : n \in 0..MaxTextLen}
    \cup {Rep(<<"W">>, 10), <<"W", " ", "W", " ", "W", " ", "W">>,
          <<"i", " ", "i", " ", "W", "W">>,
          <<"i", " ", " ", "i", " ", "W", "W", " ">>}

Fonts == {"Helvetica-Bold", "Helvetica"}

\* What result holds before the routine returns.
None == [kind |-> "none"]

\* The search state of fit_text_to_cell while no fit is running.
FitIdle == lo = 0 /\ hi = 0 /\ best_fs = 0 /\ best_lines = <<>>

\* The tiler's and the grid generator's state while neither is running.
TileIdle == i = 0 /\ k = 0

GridIdle == page_no = 0 /\ r = 0 /\ col = 0

\* No canvas has been created: no call at all, not even the constructor's.
NoCanvas == <<>>

(***************************************************************************)
(* wrap_text called on its own.                                            *)
(***************************************************************************)
WrapArgs ==
    [text : Texts, font : Fonts, size : 1..MaxFs,
     max_width : {HalfPt(n) : n \in {1, 12, 20, 46}}]

InitWrap ==
    /\ pc = "wrap"
    /\ args \in WrapArgs
    /\ FitIdle /\ TileIdle /\ GridIdle
    /\ canvas = NoCanvas
    /\ result = None

WrapCall ==
    /\ pc = "wrap"
    /\ result' = [kind |-> "lines",
                   lines |-> wrap_text(args.text, args.font, args.size, args.max_width)]
    /\ pc' = "done"
    /\ UNCHANGED <<args, fitVars, canvas, tileVars, gridVars>>

NextWrap == WrapCall

SpecWrap == InitWrap /\ [][NextWrap]_vars

(***************************************************************************)
(* fit_text_to_cell, one action per step of its binary search.             *)
(***************************************************************************)
\* The spec's degenerate case: a very wide word in a 10x10 cell, 6..40.
DegenerateArgs ==
    [text |-> Rep(<<"W">>, 10), font |-> "Helvetica-Bold", max_fs |-> 40,
     min_fs |-> 6, cell_w |-> 10 * Unit, cell_h |-> 10 * Unit,
     padding |-> HalfPt(7), line_gap |-> HalfPt(3), max_lines |-> 3]

FitArgs ==
    {a \in [text : Texts, font : {"Helvetica-Bold"}, max_fs : 1..MaxFs,
            min_fs : 1..MaxFs, cell_w : {10 * Unit, 16 * Unit},
            cell_h : {10 * Unit, 20 * Unit, 30 * Unit},
            padding : {HalfPt(7)}, line_gap : {HalfPt(1), HalfPt(3)},
            max_lines : 1..MaxLines] : a.min_fs <= a.max_fs}
    \cup {DegenerateArgs}

InitFit ==
    /\ pc = "fit_entry"
    /\ args \in FitArgs
    /\ FitIdle /\ TileIdle /\ GridIdle
    /\ canvas = NoCanvas
    /\ result = None

\* lo, hi = min_fs, max_fs; best_fs = min_fs; best_lines = [""]
FitEnter ==
    /\ pc = "fit_entry"
    /\ lo' = args.min_fs
    /\ hi' = args.max_fs
    /\ best_fs' = args.min_fs
    /\ best_lines' = << <<>> >>
    /\ pc' = "fit_loop"
    /\ UNCHANGED <<args, result, canvas, tileVars, gridVars>>

mid == (lo + hi) \div 2

\* FitKeep moving the wrong end of the range (it then seeks the smallest fit).
FitKeepMovesHi ==
    /\ pc = "fit_loop"
    /\ lo <= hi
    /\ FitsOk(args, mid)
    /\ best_fs' = mid
    /\ best_lines' = FitsLines(args, mid)
    /\ hi' = mid - 1
    /\ UNCHANGED <<pc, args, lo, result, canvas, tileVars, gridVars>>

\* while lo <= hi, the branch taken when fits(mid) is ok
FitKeep ==
    /\ pc = "fit_loop"
    /\ lo <= hi
    /\ FitsOk(args, mid)
    /\ best_fs' = mid
    /\ best_lines' = FitsLines(args, mid)
    /\ lo' = mid + 1
    /\ UNCHANGED <<pc, args, hi, result, canvas, tileVars, gridVars>>

\* FitShrink leaving the range as it is (the loop then never ends).
FitShrinkStuck ==
    /\ pc = "fit_loop"
    /\ lo <= hi
    /\ ~FitsOk(args, mid)
    /\ hi' = hi
    /\ UNCHANGED <<pc, args, lo, best_fs, best_lines, result, canvas, tileVars, gridVars>>

\* while lo <= hi, the branch taken when fits(mid) is not ok
FitShrink ==
    /\ pc = "fit_loop"
    /\ lo <= hi
    /\ ~FitsOk(args, mid)
    /\ hi' = mid - 1
    /\ UNCHANGED <<pc, args, lo, best_fs, best_lines, result, canvas, tileVars, gridVars>>

\* return best_fs, best_lines
FitReturn ==
    /\ pc = "fit_loop"
    /\ lo > hi
    /\ result' = [kind |-> "fit", size |-> best_fs, lines |-> best_lines]
    /\ pc' = "done"
    /\ UNCHANGED <<args, fitVars, canvas, tileVars, gridVars>>

NextFit == FitEnter \/ FitKeep \/ FitShrink \/ FitReturn

SpecFit == InitFit /\ [][NextFit]_vars

\* The same call with fewer boxes, for the check of termination.  The call
\* runs to its return: it is synchronous and nothing is scheduled beside it.
InitFitFair ==
    /\ InitFit
    /\ args.cell_w = 10 * Unit
    /\ args.cell_h = 10 * Unit
    /\ args.line_gap = HalfPt(3)
    /\ args.max_lines = MaxLines
    /\ Len(args.text) >= MaxTextLen
    /\ strip(args.text) = args.text

FairSpecFit == InitFitFair /\ [][NextFit]_vars /\ WF_vars(NextFit)


(***************************************************************************)
(* draw_fitted_text (app1.py) and draw_cell_text (app.py) called on their  *)
(* own, on a canvas that has no call yet.                                  *)
(***************************************************************************)
DrawArgs ==
    [fn : {"draw_fitted_text", "draw_cell_text"},
     x : {-(20 * Unit)}, y : {5 * Unit},
     w : {10 * Unit, 40 * Unit}, h : {31 * Unit},
     text : Texts, font : {"Helvetica-Bold"}, fs : {MaxFs - 1, MaxFs},
     padding : {HalfPt(7)}, line_gap : {HalfPt(3)},
     max_lines : 1..(MaxLines + 1), center : BOOLEAN]

InitDraw ==
    /\ pc = "draw_entry"
    /\ args \in DrawArgs
    /\ FitIdle /\ TileIdle /\ GridIdle
    /\ canvas = <<>>
    /\ result = None

\* draw_fitted_text(c, x, y, w, h, text, font, fs, padding, line_gap, max_lines, center)
DrawFittedCall ==
    /\ pc = "draw_entry"
    /\ args.fn = "draw_fitted_text"
    /\ canvas' = Tag(draw_fitted_text(args.x, args.y, args.w, args.h, args.text,
                          args.font, args.fs, args.padding, args.line_gap,
                          args.max_lines, args.center), 0, 0, -1)
    /\ result' = [kind |-> "drawn"]
    /\ pc' = "done"
    /\ UNCHANGED <<args, fitVars, tileVars, gridVars>>

\* draw_cell_text(c, x, y, w, h, text, font, size, padding, line_gap, max_lines, center)
DrawCellCall ==
    /\ pc = "draw_entry"
    /\ args.fn = "draw_cell_text"
    /\ canvas' = Tag(draw_cell_text(args.x, args.y, args.w, args.h, args.text,
                          args.font, args.fs, args.padding, args.line_gap,
                          args.max_lines, args.center), 0, 0, -1)
    /\ result' = [kind |-> "drawn"]
    /\ pc' = "done"
    /\ UNCHANGED <<args, fitVars, tileVars, gridVars>>

NextDraw == DrawFittedCall \/ DrawCellCall

SpecDraw == InitDraw /\ [][NextDraw]_vars

(***************************************************************************)
(* generate_pdf_3up, one action per block position, page and return.       *)
(***************************************************************************)
MaxRecords == 7
MaxSplit == 3

\* PdfSpec() of app1.py
PdfSpecApp1 ==
    [app |-> "app1", page_width_in |-> 4 * Unit, page_height_in |-> 6 * Unit,
     split_count |-> 3, margin_in |-> Unit \div 10, font_name |-> "Helvetica-Bold",
     header_max_fs |-> 10, header_min_fs |-> 6, value_max_fs_general |-> 11,
     value_max_fs_ap_boost |-> 13, host_fixed_fs |-> 8, value_min_fs |-> 6,
     header_ratio |-> 22, block_gap_pt |-> 6 * Unit,
     border_thin |-> (8 * Unit) \div 10, border_thick |-> (16 * Unit) \div 10,
     cell_padding |-> HalfPt(7), line_gap |-> HalfPt(3)]

\* PdfSpec() of app.py
PdfSpecApp ==
    [app |-> "app", page_width_in |-> 4 * Unit, page_height_in |-> 6 * Unit,
     split_count |-> 3, margin_in |-> Unit \div 10, font_name |-> "Helvetica",
     header_font_size |-> 8, value_font_size |-> 9,
     border_thin |-> (8 * Unit) \div 10, border_thick |-> (16 * Unit) \div 10,
     cell_padding |-> HalfPt(7), line_gap |-> HalfPt(3)]

\* The specs the tiler is run with: both programs, every block count up to
\* the bound, and for app1 the ends of the gap slider's range.
TileSpecs ==
    {[PdfSpecApp1 EXCEPT !.split_count = n, !.block_gap_pt = g] :
        n \in 1..MaxSplit, g \in {0, 6 * Unit, 14 * Unit}}
    \cup {[PdfSpecApp EXCEPT !.split_count = n] : n \in 1..MaxSplit}

\* Three kinds of record: every field short; two fields absent; long texts.
RowPool ==
    << [n \in {"IP", "Host", "New IP", "SFP", "Cat-6", "LAN", "At/Pr", "AP", "IP/P"} |->
           CASE n = "IP" -> <<"1", ".", "1">>
             [] n = "Host" -> <<"s", "w", " ", "1">>
             [] n = "New IP" -> <<"1", ".", "2">>
             [] n = "AP" -> <<"A", "P", " ", "1", " ", "2">>
             [] n = "IP/P" -> <<"1", "/", "2">>
             [] OTHER -> <<"6">>],
       [n \in {"IP", "New IP", "SFP", "Cat-6", "LAN", "At/Pr", "IP/P"} |->
           CASE n = "IP" -> <<"1", ".", "2">>
             [] n = "LAN" -> <<" ", "L", " ">>
             [] OTHER -> <<>>],
       [n \in {"IP", "Host", "New IP", "SFP", "Cat-6", "LAN", "At/Pr", "AP", "IP/P"} |->
           CASE n = "IP" -> <<"1", ".", "0">>
             [] n = "Host" -> Rep(<<"W", "W", "W", "W", "W", "W", " ">>, 4)
             [] n = "AP" -> Rep(<<"W", "W", "W", " ">>, 5)
             [] n = "LAN" -> Rep(<<"W">>, 12)
             [] OTHER -> <<"A", " ", "2">>] >>

\* df.to_dict(orient="records") of a frame of R rows.
Rows(R) == [n \in 1..R |-> RowPool[((n - 1) % Len(RowPool)) + 1]]

InitTile ==
    /\ pc = "tile_entry"
    /\ args \in [df : {Rows(R) : R \in 0..MaxRecords}, spec : TileSpecs]
    /\ FitIdle /\ TileIdle /\ GridIdle
    /\ canvas = NoCanvas
    /\ result = None

\* c = canvas.Canvas(...); the geometry; rows; i = 0
TileEnter ==
    /\ pc = "tile_entry"
    /\ canvas' = Tag(<<Op("Canvas", <<page_w(args.spec), page_h(args.spec)>>)>>, 0, 0, -1)
    /\ i' = 0
    /\ k' = 0
    /\ pc' = "tile_loop"
    /\ UNCHANGED <<args, result, fitVars, gridVars>>

\* for k: idx = i + k < len(rows): draw_block_9col_table
TileDrawRecord ==
    /\ pc = "tile_loop"
    /\ i < Len(args.df)
    /\ k < args.spec.split_count
    /\ i + k < Len(args.df)
    /\ LET b == BlockRect(args.spec, k)
       IN  canvas' = canvas \o
               Tag(draw_block_9col_table(b[1], b[2], b[3], b[4],
                                         args.df[i + k + 1], args.spec),
                   i \div args.spec.split_count, k, i + k)
    /\ k' = k + 1
    /\ UNCHANGED <<pc, args, i, result, fitVars, gridVars>>

\* TileDrawEmpty leaving the position blank.
TileDrawEmptySkips ==
    /\ pc = "tile_loop"
    /\ i < Len(args.df)
    /\ k < args.spec.split_count
    /\ i + k >= Len(args.df)
    /\ k' = k + 1
    /\ UNCHANGED <<pc, args, i, canvas, result, fitVars, gridVars>>

\* for k: idx = i + k >= len(rows): the empty bordered block
TileDrawEmpty ==
    /\ pc = "tile_loop"
    /\ i < Len(args.df)
    /\ k < args.spec.split_count
    /\ i + k >= Len(args.df)
    /\ canvas' = canvas \o
           Tag(<<Op("setLineWidth", <<args.spec.border_thin>>),
                 Op("rect", BlockRect(args.spec, k))>>,
               i \div args.spec.split_count, k, -1)
    /\ k' = k + 1
    /\ UNCHANGED <<pc, args, i, result, fitVars, gridVars>>

\* TileShowPage stepping to the next record, not to the next page's first.
TileShowPageStepsOne ==
    /\ pc = "tile_loop"
    /\ i < Len(args.df)
    /\ k = args.spec.split_count
    /\ canvas' = canvas \o
           Tag(<<Op("showPage", <<>>)>>, i \div args.spec.split_count, k, -1)
    /\ i' = i + 1
    /\ k' = 0
    /\ UNCHANGED <<pc, args, result, fitVars, gridVars>>

\* c.showPage(); i += spec.split_count
TileShowPage ==
    /\ pc = "tile_loop"
    /\ i < Len(args.df)
    /\ k = args.spec.split_count
    /\ canvas' = canvas \o
           Tag(<<Op("showPage", <<>>)>>, i \div args.spec.split_count, k, -1)
    /\ i' = i + args.spec.split_count
    /\ k' = 0
    /\ UNCHANGED <<pc, args, result, fitVars, gridVars>>

\* c.save(); return buf.getvalue()
TileSave ==
    /\ pc = "tile_loop"
    /\ i >= Len(args.df)
    /\ canvas' = canvas \o Tag(<<Op("save", <<>>)>>, i \div args.spec.split_count, 0, -1)
    /\ result' = [kind |-> "pdf"]
    /\ pc' = "done"
    /\ UNCHANGED <<args, i, k, fitVars, gridVars>>

NextTile ==
    TileEnter \/ TileDrawRecord \/ TileDrawEmpty \/ TileShowPage \/ TileSave

SpecTile == InitTile /\ [][NextTile]_vars

(***************************************************************************)
(* generate_pdf_pages (app3.py).  Its lengths are exact: a millimetre      *)
(* value counts 1/10000 mm, and a point is GridUnit units, so that         *)
(* x_mm * mm (mm = 72 / 25.4 points) is x times 720 units with no rounding.*)
(***************************************************************************)
MaxPages == 2
MaxRepeat == 3

GridUnit == 254 * Unit

mm == 720

\* The 0.001 pt tolerance of the two bounds checks.
Tolerance == GridUnit \div 1000

\* int(round(n / d)): Python rounds halves to the even neighbour.
RoundHalfEven(n, d) ==
    LET q == n \div d
        rem == n % d
    IN  IF 2 * rem < d THEN q
        ELSE IF 2 * rem > d THEN q + 1
        ELSE IF q % 2 = 0 THEN q ELSE q + 1

\* symbol_scale counts hundredths.
compute_font_size(base_size, text, symbol_scale) ==
    IF Len(strip(text)) > 1
    THEN Max(6, RoundHalfEven(base_size * symbol_scale, 100))
    ELSE base_size

\* The lengths generate_pdf_pages derives from its arguments, in points.
GridGeom(a) ==
    LET col_w == a.grid.col_w_mm * mm
        row_h == a.grid.row_h_mm * mm
        col_gap == a.col_gap_mm * mm
        row_gap == a.row_gap_mm * mm
    IN  [page_w |-> a.page.page_w_mm * mm,
         page_h |-> a.page.page_h_mm * mm,
         col_w |-> col_w, row_h |-> row_h,
         left_margin |-> a.left_margin_mm * mm,
         top_margin |-> a.top_margin_mm * mm,
         col_gap |-> col_gap, row_gap |-> row_gap,
         grid_total_w |-> (a.grid.cols * col_w) + ((a.grid.cols - 1) * col_gap),
         grid_total_h |-> (a.grid.rows * row_h) + ((a.grid.rows - 1) * row_gap)]

TextEmpty(a) == strip(a.text_value) = <<>>

WidthOut(a) ==
    GridGeom(a).left_margin + GridGeom(a).grid_total_w > GridGeom(a).page_w + Tolerance

HeightOut(a) ==
    GridGeom(a).top_margin + GridGeom(a).grid_total_h > GridGeom(a).page_h + Tolerance

\* PageSpec() and GridSpec()
PageSpecDefault == [page_w_mm |-> 95 * Unit, page_h_mm |-> 150 * Unit]

GridSpecDefault ==
    [cols |-> 9, rows |-> 3, col_w_mm |-> 10 * Unit, row_h_mm |-> 50 * Unit]

\* A grid of low rows: 2 x 2 cells of 10 mm x 3 mm, lower than twice the
\* 2 mm padding.
GridSpecLow ==
    [cols |-> 2, rows |-> 2, col_w_mm |-> 10 * Unit, row_h_mm |-> 3 * Unit]

\* The arguments the generator is run with; the margins include values
\* 0.0003 mm past the page edge, inside the tolerance of the checks.
GridArgs ==
    [text_value : {<<>>, <<" ">>, <<"W">>, <<" ", "W", "i">>},
     pages : (-1)..MaxPages,
     page : {PageSpecDefault},
     grid : {GridSpecDefault, GridSpecLow},
     left_margin_mm : {0, 5 * Unit, 5 * Unit + 3, 6 * Unit},
     top_margin_mm : {0, 3, Unit \div 2},
     col_gap_mm : {0, Unit \div 2},
     row_gap_mm : {0, Unit \div 2},
     repeat_per_cell : {1, MaxRepeat},
     base_font_size : {18},
     symbol_scale : {75},
     draw_cell_boxes : BOOLEAN,
     stroke_width_pt : {(7 * GridUnit) \div 10},
     chosen_font_name : {"Helvetica"}]

InitGrid ==
    /\ pc = "grid_entry"
    /\ args \in GridArgs
    /\ FitIdle /\ TileIdle /\ GridIdle
    /\ canvas = NoCanvas
    /\ result = None

Raise(reason) ==
    /\ result' = [kind |-> "error", error |-> "ValueError", reason |-> reason]
    /\ pc' = "done"
    /\ UNCHANGED <<args, canvas, fitVars, tileVars, gridVars>>

\* if not text_value: raise
GridRejectText ==
    /\ pc = "grid_entry"
    /\ TextEmpty(args)
    /\ Raise("text")

\* if pages < 1: raise
GridRejectPages ==
    /\ pc = "grid_entry"
    /\ ~TextEmpty(args)
    /\ args.pages < 1
    /\ Raise("pages")

\* if left_margin + grid_total_w > page_w + 0.001: raise
GridRejectWidth ==
    /\ pc = "grid_entry"
    /\ ~TextEmpty(args)
    /\ args.pages >= 1
    /\ WidthOut(args)
    /\ Raise("width")

\* GridRejectHeight making its check once the canvas exists.
GridRejectHeightLate ==
    /\ pc = "grid_entry"
    /\ ~TextEmpty(args)
    /\ args.pages >= 1
    /\ ~WidthOut(args)
    /\ HeightOut(args)
    /\ canvas' = Tag(<<Op("Canvas", <<GridGeom(args).page_w, GridGeom(args).page_h>>)>>,
                     0, 0, -1)
    /\ result' = [kind |-> "error", error |-> "ValueError", reason |-> "height"]
    /\ pc' = "done"
    /\ UNCHANGED <<args, fitVars, tileVars, gridVars>>

\* if top_margin + grid_total_h > page_h + 0.001: raise
GridRejectHeight ==
    /\ pc = "grid_entry"
    /\ ~TextEmpty(args)
    /\ args.pages >= 1
    /\ ~WidthOut(args)
    /\ HeightOut(args)
    /\ Raise("height")

\* The checks passed: the canvas, its title and its line width.
GridEnter ==
    /\ pc = "grid_entry"
    /\ ~TextEmpty(args)
    /\ args.pages >= 1
    /\ ~WidthOut(args)
    /\ ~HeightOut(args)
    /\ canvas' = Tag(<<Op("Canvas", <<GridGeom(args).page_w, GridGeom(args).page_h>>),
                       Op("setTitle", <<>>),
                       Op("setLineWidth", <<args.stroke_width_pt>>)>>, 0, 0, -1)
    /\ page_no' = 0
    /\ r' = 0
    /\ col' = 0
    /\ pc' = "grid_page"
    /\ UNCHANGED <<args, result, fitVars, tileVars>>

font_size == compute_font_size(args.base_font_size, strip(args.text_value), args.symbol_scale)

\* for _ in range(pages): c.setFont(chosen_font_name, font_size)
GridSetFont ==
    /\ pc = "grid_page"
    /\ page_no < args.pages
    /\ canvas' = canvas \o Tag(<<SetFont(args.chosen_font_name, font_size)>>, page_no, 0, -1)
    /\ r' = 0
    /\ col' = 0
    /\ pc' = "grid_cell"
    /\ UNCHANGED <<args, result, page_no, fitVars, tileVars>>

\* padding_y = max(2.0 * mm, 0.08 * row_h)
padding_y(a) == Max(2 * Unit * mm, 8 * (GridGeom(a).row_h \div 100))

\* CellCalls setting the rows one on the other: y without the row gaps.
CellCallsRowsTouch(a, r_, col_) ==
    LET g == GridGeom(a)
        x == g.left_margin + col_ * (g.col_w + g.col_gap)
        y == (g.page_h - g.top_margin) - (r_ + 1) * g.row_h
        usable_h == Max(GridUnit, g.row_h - 2 * padding_y(a))
        fs == compute_font_size(a.base_font_size, strip(a.text_value), a.symbol_scale)
        ty(n) ==
            y + g.row_h - padding_y(a)
              - (IF a.repeat_per_cell = 1 THEN usable_h \div 2
                 ELSE (usable_h * n) \div (a.repeat_per_cell - 1))
    IN  (IF a.draw_cell_boxes THEN <<Op("rect", <<x, y, g.col_w, g.row_h>>)>> ELSE <<>>)
        \o [n \in 1..a.repeat_per_cell |->
               [op |-> "drawCentredString",
                a |-> <<x + (g.col_w \div 2), ty(n - 1) - fs * ((35 * GridUnit) \div 100)>>,
                font |-> "", text |-> strip(a.text_value)]]

\* The calls of one cell: its box when asked for, and the repeated text.
CellCalls(a, r_, col_) ==
    LET g == GridGeom(a)
        x == g.left_margin + col_ * (g.col_w + g.col_gap)
        y == (g.page_h - g.top_margin) - (r_ + 1) * g.row_h - r_ * g.row_gap
        usable_h == Max(GridUnit, g.row_h - 2 * padding_y(a))
        fs == compute_font_size(a.base_font_size, strip(a.text_value), a.symbol_scale)
        ty(n) ==
            y + g.row_h - padding_y(a)
              - (IF a.repeat_per_cell = 1 THEN usable_h \div 2
                 ELSE (usable_h * n) \div (a.repeat_per_cell - 1))
    IN  (IF a.draw_cell_boxes THEN <<Op("rect", <<x, y, g.col_w, g.row_h>>)>> ELSE <<>>)
        \o [n \in 1..a.repeat_per_cell |->
               [op |-> "drawCentredString",
                a |-> <<x + (g.col_w \div 2), ty(n - 1) - fs * ((35 * GridUnit) \div 100)>>,
                font |-> "", text |-> strip(a.text_value)]]

\* for r: for col: one cell, then the next in row-major order
GridCell ==
    /\ pc = "grid_cell"
    /\ canvas' = canvas \o
           Tag(CellCalls(args, r, col), page_no, r * args.grid.cols + col, -1)
    /\ IF col + 1 < args.grid.cols
       THEN col' = col + 1 /\ UNCHANGED <<r, pc>>
       ELSE IF r + 1 < args.grid.rows
            THEN r' = r + 1 /\ col' = 0 /\ UNCHANGED pc
            ELSE pc' = "grid_show" /\ UNCHANGED <<r, col>>
    /\ UNCHANGED <<args, result, page_no, fitVars, tileVars>>

\* c.showPage()
GridShowPage ==
    /\ pc = "grid_show"
    /\ canvas' = canvas \o Tag(<<Op("showPage", <<>>)>>, page_no, 0, -1)
    /\ page_no' = page_no + 1
    /\ pc' = "grid_page"
    /\ UNCHANGED <<args, result, r, col, fitVars, tileVars>>

\* c.save(); return buf.getvalue()
GridSave ==
    /\ pc = "grid_page"
    /\ page_no >= args.pages
    /\ canvas' = canvas \o Tag(<<Op("save", <<>>)>>, page_no, 0, -1)
    /\ result' = [kind |-> "pdf"]
    /\ pc' = "done"
    /\ UNCHANGED <<args, page_no, r, col, fitVars, tileVars>>

NextGrid ==
    \/ GridRejectText \/ GridRejectPages \/ GridRejectWidth \/ GridRejectHeight
    \/ GridEnter \/ GridSetFont \/ GridCell \/ GridShowPage \/ GridSave

SpecGrid == InitGrid /\ [][NextGrid]_vars

(***************************************************************************)
(* Properties of fit_text_to_cell.                                         *)
(***************************************************************************)
FitDone == pc = "done" /\ "min_fs" \in DOMAIN args

\* The sizes of the range that pass the height test, found one by one.
FittingSizes(a) == {S \in a.min_fs..a.max_fs : FitsOk(a, S)}

SetMax(S) == CHOOSE x \in S : \A y \in S : y <= x

\* Height of the returned lines at the returned size.
ResultHeight == Len(result.lines) * (result.size * Unit + args.line_gap)

\* C2: whenever some size of [min_fs, max_fs] passes the height test,
\* fit_text_to_cell returns the largest such size, the one a linear scan of
\* the whole range finds.
C2_LargestFit ==
    (FitDone /\ FittingSizes(args) # {})
        => result.size = SetMax(FittingSizes(args))

\* A search that had to look: the result is strictly inside the range, and
\* sizes above it fail.
C2_Witness ==
    /\ FitDone
    /\ args.min_fs < result.size
    /\ result.size < args.max_fs
    /\ result.size = SetMax(FittingSizes(args))
    /\ ~FitsOk(args, result.size + 1)

\* C3: when no size passes, the returned lines are the text wrapped at
\* min_fs over the usable width, truncated to max_lines.
C3_FallbackLines ==
    (FitDone /\ FittingSizes(args) = {})
        => result.lines = FitsLines(args, args.min_fs)

\* C4: fit_text_to_cell always returns, with a size in [min_fs, max_fs] that
\* is min_fs when no size passes the height test.
C4_AlwaysReturns ==
    /\ <>(pc = "done")
    /\ [](FitDone =>
            /\ result.size \in args.min_fs..args.max_fs
            /\ (FittingSizes(args) = {} => result.size = args.min_fs))

\* The degraded case has returned: no size passed and min_fs came back.
C4_Witness ==
    /\ FitDone
    /\ FittingSizes(args) = {}
    /\ args.min_fs < args.max_fs
    /\ result.size = args.min_fs

\* The height test of the claim at min_fs, against the cell's own usable
\* height cell_h - 2 * padding.
TrueFitsAtMin(a) ==
    Len(FitsLines(a, a.min_fs)) * (a.min_fs * Unit + a.line_gap)
        <= a.cell_h - 2 * a.padding

\* C5 as stated: the returned lines fit cell_h - 2 * padding unless the
\* height test fails at min_fs, for every cell height and padding.
C5_FitsCellHeight ==
    FitDone =>
        \/ ResultHeight <= args.cell_h - 2 * args.padding
        \/ ~FitsOk(args, args.min_fs)
        \/ ~TrueFitsAtMin(args)

\* C5 amended: the returned lines fit max(6, cell_h - 2 * padding), the
\* height the test is made against, unless that test fails at min_fs.
C5_FitsFlooredHeight ==
    FitDone =>
        \/ ResultHeight <= Max(6 * Unit, args.cell_h - 2 * args.padding)
        \/ ~FitsOk(args, args.min_fs)

\* A fit in a cell whose cell_h - 2 * padding is below 6 points.
C5_Witness ==
    /\ FitDone
    /\ args.cell_h - 2 * args.padding < 6 * Unit
    /\ FitsOk(args, args.min_fs)
    /\ result.size > args.min_fs
    /\ ResultHeight <= 6 * Unit

(***************************************************************************)
(* Properties of wrap_text.                                                *)
(***************************************************************************)
WrapDone == pc = "done" /\ "max_width" \in DOMAIN args

LineWidth(line) == stringWidth(line, args.font, args.size)

\* C6: for a non-empty text and a positive max_width, wrap_text returns at
\* least one line, and each line is no wider than max_width or is one word.
C6_WrapTotality ==
    (WrapDone /\ args.text # <<>> /\ args.max_width > 0) =>
        /\ Len(result.lines) >= 1
        /\ \A n \in 1..Len(result.lines) :
              \/ LineWidth(result.lines[n]) <= args.max_width
              \/ Len(split(result.lines[n])) = 1

\* Both kinds of line in one result.lines: a packed line of two words that fits,
\* and a single word wider than max_width.
C6_Witness ==
    /\ WrapDone
    /\ args.max_width > 0
    /\ \E n \in 1..Len(result.lines) :
          Len(split(result.lines[n])) = 2 /\ LineWidth(result.lines[n]) <= args.max_width
    /\ \E n \in 1..Len(result.lines) :
          Len(split(result.lines[n])) = 1 /\ LineWidth(result.lines[n]) > args.max_width

Blank(text) == \A n \in 1..Len(text) : IsSpace(text[n])

\* C7: an empty or whitespace-only text wraps to exactly one line, the
\* empty string, and no text wraps to zero lines.
C7_BlankOneLine ==
    WrapDone =>
        /\ Len(result.lines) >= 1
        /\ (Blank(args.text) => result.lines = << <<>> >>)

\* A whitespace-only text of more than one character was wrapped.
C7_Witness ==
    /\ WrapDone
    /\ Len(args.text) >= 2
    /\ Blank(args.text)
    /\ result.lines = << <<>> >>

(***************************************************************************)
(* Properties of generate_pdf_3up.                                         *)
(***************************************************************************)
TileRun == "df" \in DOMAIN args

TileDone == pc = "done" /\ TileRun

\* The places in the canvas log of the calls of one name.
Calls(name) == {n \in 1..Len(canvas) : canvas[n].op = name}

\* ceil(a / b)
CeilDiv(a, b) == (a + b - 1) \div b

\* C1: for R records and split_count >= 1, generate_pdf_3up shows exactly
\* ceil(R / split_count) pages, all before save; none when R = 0.
C1_PageCount ==
    TileDone =>
        /\ Cardinality(Calls("showPage"))
              = CeilDiv(Len(args.df), args.spec.split_count)
        /\ Calls("save") = {Len(canvas)}

\* The spec's example: 7 records, 3 to a page, 3 pages.
C1_Witness ==
    /\ TileDone
    /\ Len(args.df) = 7
    /\ args.spec.split_count = 3
    /\ Cardinality(Calls("showPage")) = 3

\* The block borders (the only rect calls of the tiler) of page p.
PageBorders(p) == {n \in Calls("rect") : canvas[n].page = p}

\* The calls made for block position b of page p.
BlockCalls(p, b) ==
    {n \in 1..Len(canvas) :
        canvas[n].page = p /\ canvas[n].blk = b
        /\ canvas[n].op \notin {"Canvas", "showPage", "save"}}

\* C8: on every page shown, exactly split_count block positions are drawn,
\* at most split_count of them hold a record, and every position past the
\* end of the records (on the final page only) is an empty bordered
\* rectangle with the geometry of the block of that position.
C8_PageBlocks ==
    TileRun =>
        \A s \in Calls("showPage") :
            LET p == canvas[s].page
                sc == args.spec.split_count
            IN  /\ Cardinality(PageBorders(p)) = sc
                /\ {canvas[n].blk : n \in PageBorders(p)} = 0..(sc - 1)
                /\ Cardinality({n \in PageBorders(p) : canvas[n].idx >= 0}) <= sc
                /\ \A n \in PageBorders(p) :
                      /\ canvas[n].a = BlockRect(args.spec, canvas[n].blk)
                      /\ \A m \in PageBorders(p) :
                            /\ canvas[m].a[1] = canvas[n].a[1]
                            /\ canvas[m].a[3] = canvas[n].a[3]
                            /\ canvas[m].a[4] = canvas[n].a[4]
                /\ \A b \in 0..(sc - 1) :
                      p * sc + b >= Len(args.df) =>
                          /\ (p + 1) * sc >= Len(args.df)
                          /\ \E n \in PageBorders(p) :
                                /\ canvas[n].blk = b
                                /\ canvas[n].idx = -1
                                /\ BlockCalls(p, b) = {n - 1, n}
                                /\ canvas[n - 1].op = "setLineWidth"

\* A final page with one record and two empty blocks has been shown.
C8_Witness ==
    /\ TileRun
    /\ args.spec.split_count = 3
    /\ \E s \in Calls("showPage") :
          /\ Cardinality({n \in PageBorders(canvas[s].page) : canvas[n].idx >= 0}) = 1
          /\ Cardinality({n \in PageBorders(canvas[s].page) : canvas[n].idx = -1}) = 2

\* The text drawn first in the value row of a block: its IP field.
DrawsIP(p, b, row) ==
    \E n \in BlockCalls(p, b) :
        canvas[n].op = "drawString" /\ canvas[n].text = RowGet(row, "IP")

\* C9: every record is drawn exactly once and in input order, record idx on
\* page idx div split_count at position idx mod split_count; position k of
\* a page lies strictly above position k + 1; and the draws of page N come
\* before its showPage and before every draw of page N + 1.
C9_RecordOrder ==
    TileRun =>
        LET sc == args.spec.split_count
            RecordBorders == {n \in Calls("rect") : canvas[n].idx >= 0}
        IN  /\ TileDone =>
                \A idx \in 0..(Len(args.df) - 1) :
                    Cardinality({n \in RecordBorders : canvas[n].idx = idx}) = 1
            /\ \A n \in RecordBorders :
                  /\ canvas[n].page = canvas[n].idx \div sc
                  /\ canvas[n].blk = canvas[n].idx % sc
                  /\ DrawsIP(canvas[n].page, canvas[n].blk, args.df[canvas[n].idx + 1])
            /\ \A n, m \in RecordBorders : n < m => canvas[n].idx < canvas[m].idx
            /\ \A n, m \in Calls("rect") :
                  (canvas[n].page = canvas[m].page /\ canvas[m].blk = canvas[n].blk + 1)
                      => (n < m /\ canvas[n].a[2] > canvas[m].a[2])
            /\ \A n \in 1..(Len(canvas) - 1) : canvas[n].page <= canvas[n + 1].page
            /\ \A s \in Calls("showPage") :
                  \A n \in 1..Len(canvas) :
                      (canvas[n].page = canvas[s].page /\ canvas[n].op # "Canvas") => n <= s

\* Three pages of records have been drawn and saved, three to a page.
C9_Witness ==
    /\ TileDone
    /\ Len(args.df) = 7
    /\ args.spec.split_count = 3
    /\ \E n \in Calls("rect") : canvas[n].idx = 6 /\ canvas[n].page = 2 /\ canvas[n].blk = 0

(***************************************************************************)
(* Properties of generate_pdf_pages.                                       *)
(***************************************************************************)
GridRun == "text_value" \in DOMAIN args

\* By how much the grid passes the page edge, in 1/10000 mm.
WidthExcess(a) ==
    a.left_margin_mm + a.grid.cols * a.grid.col_w_mm
        + (a.grid.cols - 1) * a.col_gap_mm - a.page.page_w_mm

HeightExcess(a) ==
    a.top_margin_mm + a.grid.rows * a.grid.row_h_mm
        + (a.grid.rows - 1) * a.row_gap_mm - a.page.page_h_mm

\* The call was refused: an error, and nothing was made or drawn.
Rejected ==
    /\ canvas = NoCanvas
    /\ pc = "done" => result.kind = "error"
    /\ pc \in {"grid_entry", "done"}

\* C10 as stated: a blank text, pages < 1, or a grid passing the page's
\* width or height at all is refused before any canvas, draw or page.
C10_RejectsInvalid ==
    (GridRun /\ (\/ Blank(args.text_value)
                 \/ args.pages < 1
                 \/ WidthExcess(args) > 0
                 \/ HeightExcess(args) > 0))
        => Rejected

\* C10 amended: a blank text, pages < 1, or a grid passing the page's width
\* or height by more than 0.001 pt is refused before any canvas, draw or
\* page.
C10_RejectsBeyondTolerance ==
    (GridRun /\ (\/ Blank(args.text_value)
                 \/ args.pages < 1
                 \/ WidthExcess(args) * mm > Tolerance
                 \/ HeightExcess(args) * mm > Tolerance))
        => Rejected

\* A grid too high for the page, with a good text and page count, refused.
C10_Witness ==
    /\ GridRun
    /\ pc = "done"
    /\ ~Blank(args.text_value)
    /\ args.pages >= 1
    /\ WidthExcess(args) <= 0
    /\ HeightExcess(args) * mm > Tolerance
    /\ result.kind = "error"
    /\ canvas = NoCanvas

(***************************************************************************)
(* Properties of draw_block_9col_table.                                    *)
(***************************************************************************)
\* The calls of one name made for block position b of page p, in call order.
BlockOps(p, b, name) ==
    SelectSeq(canvas, LAMBDA c : c.page = p /\ c.blk = b /\ c.op = name)

\* The block positions (page, position) that hold a record.
RecordBlocks ==
    {<<canvas[n].page, canvas[n].blk>> : n \in {m \in Calls("rect") : canvas[m].idx >= 0}}

\* The column dividers of a block: its vertical lines.
Dividers(p, b) == SelectSeq(BlockOps(p, b, "line"), LAMBDA c : c.a[1] = c.a[3])

\* Where column j of block (p, b) starts: the centre its header cell is
\* moved to, less half its width.
ColStart(p, b, j) ==
    BlockOps(p, b, "translate")[j].a[1]
        - (col_ws(args.spec.app, BlockRect(args.spec, b)[3])[j] \div 2)

\* The x cursor after the last column of block (p, b).
ColEnd(p, b) ==
    LET ws == col_ws(args.spec.app, BlockRect(args.spec, b)[3])
    IN  ColStart(p, b, Len(ws)) + ws[Len(ws)]

\* Column 1 starts at bx, column j + 1 where column j ends, the dividers
\* stand on the column starts, and the value cells stand under the headers.
ColumnsAdjoin(p, b) ==
    LET ws == col_ws(args.spec.app, BlockRect(args.spec, b)[3])
        tr == BlockOps(p, b, "translate")
        N == Len(ws)
    IN  /\ Len(tr) = 2 * N
        /\ Len(Dividers(p, b)) = N - 1
        /\ ColStart(p, b, 1) = BlockRect(args.spec, b)[1]
        /\ \A j \in 1..(N - 1) :
              /\ ColStart(p, b, j + 1) = ColStart(p, b, j) + ws[j]
              /\ Dividers(p, b)[j].a[1] = ColStart(p, b, j + 1)
        /\ \A j \in 1..N : tr[j + N].a[1] = tr[j].a[1]

\* C11 as stated: the column widths sum to the block width, the columns are
\* contiguous from bx, and after the last column the x cursor equals
\* bx + bw.
C11_WidthsPartition ==
    TileRun =>
        \A pb \in RecordBlocks :
            /\ ColumnsAdjoin(pb[1], pb[2])
            /\ ColEnd(pb[1], pb[2])
                  = BlockRect(args.spec, pb[2])[1] + BlockRect(args.spec, pb[2])[3]

\* C11 amended: the columns are contiguous from bx, and after the last
\* column the x cursor is bx + bw up to the rounding of the nine widths
\* (less than one unit of resolution for each column).
C11_WidthsPartitionRounded ==
    TileRun =>
        \A pb \in RecordBlocks :
            LET edge == BlockRect(args.spec, pb[2])[1] + BlockRect(args.spec, pb[2])[3]
            IN  /\ ColumnsAdjoin(pb[1], pb[2])
                /\ ColEnd(pb[1], pb[2]) - edge < Len(weights(args.spec.app))
                /\ edge - ColEnd(pb[1], pb[2]) < Len(weights(args.spec.app))

\* A record block of each program has been drawn, its cursor short of the
\* block's right edge.
C11_Witness ==
    /\ TileRun
    /\ \E pb \in RecordBlocks :
          /\ ColumnsAdjoin(pb[1], pb[2])
          /\ ColEnd(pb[1], pb[2])
                < BlockRect(args.spec, pb[2])[1] + BlockRect(args.spec, pb[2])[3]

\* Every call made for block position b of page p, in call order.
BlockSeq(p, b) ==
    SelectSeq(canvas, LAMBDA c : c.page = p /\ c.blk = b
                                    /\ c.op \notin {"Canvas", "showPage", "save"})

\* The places in B of the calls of one name, in call order.
Places(B, name) ==
    SelectSeq([n \in 1..Len(B) |-> n], LAMBDA n : B[n].op = name)

\* The cells of a record block, nine headers and then nine values: cell c
\* runs from the c-th saveState to the c-th restoreState, both included.
Cells(p, b) ==
    LET B == BlockSeq(p, b)
        saves == Places(B, "saveState")
        restores == Places(B, "restoreState")
    IN  [c \in 1..Min(Len(saves), Len(restores)) |-> SubSeq(B, saves[c], restores[c])]

\* The drawString calls of a cell, and the texts they draw.
CellDraws(cell) == SelectSeq(cell, LAMBDA c : c.op = "drawString")

CellTexts(cell) == [n \in 1..Len(CellDraws(cell)) |-> CellDraws(cell)[n].text]

\* The words of the lines, in order.
WordsOf(lines) == Flatten([n \in 1..Len(lines) |-> split(lines[n])])

IsPrefix(a, b) == Len(a) <= Len(b) /\ SubSeq(b, 1, Len(a)) = a

\* The cell shows the text: its lines hold the first words of the text, in
\* order, and at least one word when the text has any.
Shows(cell, text) ==
    /\ Len(CellTexts(cell)) >= 1
    /\ IsPrefix(WordsOf(CellTexts(cell)), split(text))
    /\ (split(text) # <<>> => WordsOf(CellTexts(cell)) # <<>>)

\* The record drawn at block position b of page p.
RowAt(p, b) == args.df[p * args.spec.split_count + b + 1]

\* C12: a record that lacks one of the nine fields gets that field's value
\* cell drawn with the empty string, and no error: its headers and its
\* other value cells show their texts as usual, and the run ends in a
\* document.
C12_MissingFieldBlank ==
    TileRun =>
        /\ pc = "done" => result.kind = "pdf"
        /\ \A pb \in RecordBlocks :
              LET cells == Cells(pb[1], pb[2])
                  row == RowAt(pb[1], pb[2])
              IN  /\ Len(cells) = 2 * Len(COLUMNS)
                  /\ \A j \in 1..Len(COLUMNS) :
                        /\ Shows(cells[j], ColumnText[j])
                        /\ IF COLUMNS[j] \in DOMAIN row
                           THEN Shows(cells[Len(COLUMNS) + j], strip(row[COLUMNS[j]]))
                           ELSE CellTexts(cells[Len(COLUMNS) + j]) = << <<>> >>

\* A record with no Host and no AP field has been drawn: both cells are
\* blank, and its IP cell shows its address.
C12_Witness ==
    /\ TileDone
    /\ \E pb \in RecordBlocks :
          /\ DOMAIN RowAt(pb[1], pb[2]) # {COLUMNS[j] : j \in 1..Len(COLUMNS)}
          /\ "Host" \notin DOMAIN RowAt(pb[1], pb[2])
          /\ CellTexts(Cells(pb[1], pb[2])[11]) = << <<>> >>
          /\ CellTexts(Cells(pb[1], pb[2])[17]) = << <<>> >>
          /\ CellTexts(Cells(pb[1], pb[2])[10]) = << <<"1", ".", "2">> >>

(***************************************************************************)
(* Properties of the height test of fit_text_to_cell.                      *)
(***************************************************************************)
FitRun == "cell_w" \in DOMAIN args

\* C13: the height test is non-increasing in the size: when a size S of
\* the range passes, every size from min_fs up to S passes too.
C13_FitsMonotone ==
    FitRun =>
        \A S \in args.min_fs..args.max_fs :
            FitsOk(args, S) => \A T \in args.min_fs..(S - 1) : FitsOk(args, T)

\* The search has kept a size above min_fs that passes while a larger size
\* of the range fails: the test changes once over the range.
C13_Witness ==
    /\ FitRun
    /\ pc = "fit_loop"
    /\ best_fs > args.min_fs
    /\ FitsOk(args, best_fs)
    /\ \E S \in (best_fs + 1)..args.max_fs : ~FitsOk(args, S)
    /\ \A T \in args.min_fs..best_fs : FitsOk(args, T)

\* The names of the calls of a cell, in call order.
CellOpNames(cell) == [n \in 1..Len(cell) |-> cell[n].op]

\* C14: in app1 every header and value cell is drawn as saveState, clip to
\* the cell's rectangle in page coordinates, translate to the centre of that
\* rectangle, rotate 90, the text, restoreState; no clip comes after the
\* translate or the rotate of its cell.
C14_ClipBeforeTurn ==
    (TileRun /\ args.spec.app = "app1") =>
        \A pb \in RecordBlocks :
            LET cells == Cells(pb[1], pb[2])
                blk == BlockRect(args.spec, pb[2])
            IN  /\ Len(cells) = 2 * Len(COLUMNS)
                /\ \A c \in 1..Len(cells) :
                      LET cell == cells[c]
                          clip == cell[2].a
                          j == ((c - 1) % Len(COLUMNS)) + 1
                      IN  /\ Len(cell) >= 7
                          /\ SubSeq(CellOpNames(cell), 1, 5)
                                = <<"saveState", "clipPath", "translate", "rotate", "setFont">>
                          /\ \A n \in 6..(Len(cell) - 1) : cell[n].op = "drawString"
                          /\ cell[Len(cell)].op = "restoreState"
                          /\ cell[4].a = <<90>>
                          /\ clip[1] = ColStart(pb[1], pb[2], j)
                          /\ clip[3] = col_ws("app1", blk[3])[j]
                          /\ clip[2] >= blk[2] /\ clip[2] + clip[4] <= blk[2] + blk[4]
                          /\ clip[2] = IF c <= Len(COLUMNS)
                                       THEN blk[2] + blk[4] - clip[4] ELSE blk[2]
                          /\ cell[3].a = <<clip[1] + (clip[3] \div 2),
                                           clip[2] + (clip[4] \div 2)>>

\* A record block of app1 has been drawn: its first header cell and its
\* last value cell are clipped before they are moved and turned.
C14_Witness ==
    /\ TileRun
    /\ args.spec.app = "app1"
    /\ \E pb \in RecordBlocks :
          /\ Len(Cells(pb[1], pb[2])) = 18
          /\ SubSeq(CellOpNames(Cells(pb[1], pb[2])[1]), 1, 4)
                = <<"saveState", "clipPath", "translate", "rotate">>
          /\ SubSeq(CellOpNames(Cells(pb[1], pb[2])[18]), 1, 4)
                = <<"saveState", "clipPath", "translate", "rotate">>

\* The calls made inside a saved state, and those made outside of any.
TurnedOps == {"clipPath", "translate", "rotate", "setFont", "drawString"}

PageOps == {"Canvas", "rect", "line", "setLineWidth", "showPage", "save"}

\* C15: every saveState is matched by a restoreState before the next one:
\* saves and restores alternate (depth at most 1), every border rectangle,
\* divider line, showPage and save is made at depth 0, and every clip,
\* translate, rotate and text draw is made inside one saved state.
C15_SaveRestorePaired ==
    TileRun =>
        LET saves == Places(canvas, "saveState")
            restores == Places(canvas, "restoreState")
            N == Len(saves)
        IN  /\ N = Len(restores)
            /\ \A c \in 1..N :
                  /\ saves[c] < restores[c]
                  /\ (c < N => restores[c] < saves[c + 1])
                  /\ \A n \in (saves[c] + 1)..(restores[c] - 1) :
                        canvas[n].op \in TurnedOps
            /\ \A c \in 0..N :
                  \A n \in (IF c = 0 THEN 1 ELSE restores[c] + 1)
                             ..(IF c = N THEN Len(canvas) ELSE saves[c + 1] - 1) :
                      canvas[n].op \in PageOps

\* Seven records on three pages, saved: 126 cells, each saved and restored,
\* the last one turned and restored before the last showPage.
C15_Witness ==
    /\ TileDone
    /\ Len(args.df) = 7
    /\ args.spec.split_count = 3
    /\ Len(Places(canvas, "saveState")) = 7 * 2 * Len(COLUMNS)
    /\ Len(Places(canvas, "restoreState")) = 7 * 2 * Len(COLUMNS)
    /\ \E n \in Calls("showPage") :
          Places(canvas, "restoreState")[7 * 2 * Len(COLUMNS)] < n

(***************************************************************************)
(* Properties of draw_fitted_text and draw_cell_text.                      *)
(***************************************************************************)
DrawDone == pc = "done" /\ "fn" \in DOMAIN args

\* The text draws of the call, in call order.
Drawn == SelectSeq(canvas, LAMBDA c : c.op = "drawString")

\* C16: of the n lines drawn, line ln (from 0) has its baseline at
\* y + (h + n * line_h) / 2 - line_h - ln * line_h with line_h = size +
\* line_gap, so the lines go down by line_h; its x is x + (w - its own
\* width) / 2 when center is true and x + padding when it is false.
C16_LinePlacement ==
    DrawDone =>
        LET n == Len(Drawn)
            line_h == args.fs * Unit + args.line_gap
        IN  /\ n >= 1
            /\ n <= args.max_lines
            /\ \A ln \in 0..(n - 1) :
                  /\ Drawn[ln + 1].a[2]
                        = args.y + ((args.h + n * line_h) \div 2) - line_h - ln * line_h
                  /\ Drawn[ln + 1].a[1]
                        = IF args.center
                          THEN args.x + ((args.w - stringWidth(Drawn[ln + 1].text,
                                                       args.font, args.fs)) \div 2)
                          ELSE args.x + args.padding
            /\ \A ln \in 1..(n - 1) : Drawn[ln].a[2] - Drawn[ln + 1].a[2] = line_h

\* Centred lines of different widths have been drawn one below the other.
C16_Witness ==
    /\ DrawDone
    /\ args.center
    /\ Len(Drawn) >= 2
    /\ Drawn[1].a[1] # Drawn[2].a[1]
    /\ Drawn[1].a[2] > Drawn[2].a[2]

\* The size the value cell of column j of block (p, b) is drawn at: the
\* size of the setFont call of the cell.
ValueSize(p, b, j) ==
    SelectSeq(Cells(p, b)[Len(COLUMNS) + j], LAMBDA c : c.op = "setFont")[1].a[1]

\* The size fit_text_to_cell gives the value of column j of block (p, b)
\* under the ceiling max_fs, in the cell cw wide and value_h high.
FittedSize(p, b, j, max_fs) ==
    LET blk == BlockRect(args.spec, b)
        cw == col_ws("app1", blk[3])[j]
        value_h == blk[4] - header_h(args.spec, blk[4])
    IN  fit_text_to_cell(RowGet(RowAt(p, b), COLUMNS[j]), args.spec.font_name,
            max_fs, args.spec.value_min_fs, cw, value_h,
            args.spec.cell_padding, args.spec.line_gap, 3).size

\* C17: in app1 the Host value is drawn at host_fixed_fs whatever its text,
\* the AP value at the fitted size under value_max_fs_ap_boost, and every
\* other value at the fitted size under value_max_fs_general, each fitted
\* size being at least value_min_fs.
C17_SizePolicy ==
    (TileRun /\ args.spec.app = "app1") =>
        \A pb \in RecordBlocks :
            \A j \in 1..Len(COLUMNS) :
                LET fs == ValueSize(pb[1], pb[2], j)
                    ceiling == IF COLUMNS[j] = "AP"
                               THEN args.spec.value_max_fs_ap_boost
                               ELSE args.spec.value_max_fs_general
                IN  IF COLUMNS[j] = "Host"
                    THEN fs = args.spec.host_fixed_fs
                    ELSE /\ fs = FittedSize(pb[1], pb[2], j, ceiling)
                         /\ args.spec.value_min_fs <= fs
                         /\ fs <= ceiling

\* A record whose Host text would fit a larger size is drawn at the fixed
\* size, its AP value above the general ceiling, its IP value at or below.
C17_Witness ==
    /\ TileRun
    /\ args.spec.app = "app1"
    /\ \E pb \in RecordBlocks :
          /\ ValueSize(pb[1], pb[2], 2) = args.spec.host_fixed_fs
          /\ FittedSize(pb[1], pb[2], 2, args.spec.value_max_fs_general)
                > args.spec.host_fixed_fs
          /\ ValueSize(pb[1], pb[2], 8) > args.spec.value_max_fs_general
          /\ ValueSize(pb[1], pb[2], 1) <= args.spec.value_max_fs_general

\* The arguments app1 gives fit_text_to_cell for the value of column j of
\* block (p, b): the cell cw wide and value_h high.
FitterArgs(p, b, j) ==
    LET blk == BlockRect(args.spec, b)
    IN  [text |-> RowGet(RowAt(p, b), COLUMNS[j]), font |-> args.spec.font_name,
         max_fs |-> IF COLUMNS[j] = "AP" THEN args.spec.value_max_fs_ap_boost
                    ELSE args.spec.value_max_fs_general,
         min_fs |-> args.spec.value_min_fs,
         cell_w |-> col_ws("app1", blk[3])[j],
         cell_h |-> blk[4] - header_h(args.spec, blk[4]),
         padding |-> args.spec.cell_padding, line_gap |-> args.spec.line_gap,
         max_lines |-> 3]

\* C18: in every fitted value cell of app1 (every column but Host) the
\* lines drawn are the lines the fitter computed at the chosen size, and
\* when the fitter's height test passed at that size the drawn lines are
\* no higher than h - 2 * padding of the turned frame, whose h is the
\* column width.
C18_DrawnLinesAreFitted ==
    (TileRun /\ args.spec.app = "app1") =>
        \A pb \in RecordBlocks :
            \A j \in 1..Len(COLUMNS) :
                COLUMNS[j] # "Host" =>
                    LET a == FitterArgs(pb[1], pb[2], j)
                        fs == ValueSize(pb[1], pb[2], j)
                        drawn == CellTexts(Cells(pb[1], pb[2])[Len(COLUMNS) + j])
                    IN  /\ drawn = FitsLines(a, fs)
                        /\ FitsOk(a, fs) =>
                              Len(drawn) * (fs * Unit + a.line_gap)
                                  <= a.cell_w - 2 * a.padding

(***************************************************************************)
(* wrap_text keeps the words.                                              *)
(***************************************************************************)
\* " ".join(q)
RECURSIVE JoinSpace(_)
JoinSpace(q) ==
    IF q = <<>> THEN <<>>
    ELSE IF Len(q) = 1 THEN Head(q)
    ELSE Head(q) \o <<" ">> \o JoinSpace(Tail(q))

\* C19: the lines of wrap_text joined with single spaces are the words of
\* the text joined with single spaces, so no word is lost, repeated, moved
\* or cut; and a line is closed only when the next word appended to it
\* would be wider than max_width.
C19_WordsKept ==
    WrapDone =>
        /\ JoinSpace(result.lines) = JoinSpace(split(args.text))
        /\ WordsOf(result.lines) = split(args.text)
        /\ \A n \in 2..Len(result.lines) :
              LineWidth(result.lines[n - 1] \o <<" ">> \o Head(split(result.lines[n])))
                  > args.max_width

\* A text of three words or more, not in joined form itself, has been
\* wrapped into several lines of which one holds more than one word.
C19_Witness ==
    /\ WrapDone
    /\ Len(split(args.text)) >= 3
    /\ args.text # JoinSpace(split(args.text))
    /\ Len(result.lines) >= 2
    /\ Len(result.lines) < Len(split(args.text))
    /\ WordsOf(result.lines) = split(args.text)

(***************************************************************************)
(* Properties of the pages of generate_pdf_pages.                          *)
(***************************************************************************)
\* The rectangle of cell c (row-major, from 0): x, y, width, height.
GridBox(a, c) ==
    LET g == GridGeom(a)
        row == c \div a.grid.cols
        column == c % a.grid.cols
    IN  [x |-> g.left_margin + column * (g.col_w + g.col_gap),
         y |-> (g.page_h - g.top_margin) - (row + 1) * g.row_h - row * g.row_gap,
         w |-> g.col_w, h |-> g.row_h]

GridCellCount(a) == a.grid.rows * a.grid.cols

\* The calls of one cell and of one page: the box if asked for and the
\* text draws; setFont, the cells, showPage.
CallsPerCell(a) == (IF a.draw_cell_boxes THEN 1 ELSE 0) + a.repeat_per_cell

CallsPerPage(a) == 2 + GridCellCount(a) * CallsPerCell(a)

\* The boxes lie inside the page, up to the tolerance, and no two of them
\* overlap.
BoxesInsidePage(a) ==
    \A c \in 0..(GridCellCount(a) - 1) :
        /\ GridBox(a, c).x >= -Tolerance
        /\ GridBox(a, c).y >= -Tolerance
        /\ GridBox(a, c).x + GridBox(a, c).w <= GridGeom(a).page_w + Tolerance
        /\ GridBox(a, c).y + GridBox(a, c).h <= GridGeom(a).page_h + Tolerance

BoxesApart(a) ==
    \A c, d \in 0..(GridCellCount(a) - 1) :
        c < d =>
            \/ GridBox(a, c).x + GridBox(a, c).w <= GridBox(a, d).x
            \/ GridBox(a, d).x + GridBox(a, d).w <= GridBox(a, c).x
            \/ GridBox(a, c).y + GridBox(a, c).h <= GridBox(a, d).y
            \/ GridBox(a, d).y + GridBox(a, d).h <= GridBox(a, c).y

\* The height h lies between the bottom and the top padding line of cell c.
BetweenPaddingLines(a, c, h) ==
    /\ GridBox(a, c).y + padding_y(a) <= h
    /\ h <= GridBox(a, c).y + GridBox(a, c).h - padding_y(a)

\* By how much a text is drawn below its height in the cell.
BaselineShift == font_size * ((35 * GridUnit) \div 100)

\* Call n of the log is what the page layout has at its place: after the
\* three calls of the entry, each page is setFont, its cells in row-major
\* order, each cell (its box and) repeat_per_cell text draws centred on the
\* box, and showPage.  AnchorOk(c, h) judges the height h of a text draw of
\* cell c.
CallInLayout(n, AnchorOk(_, _)) ==
    LET a == args
        q == (n - 4) % CallsPerPage(a)
        c == (q - 1) \div CallsPerCell(a)
        m == (q - 1) % CallsPerCell(a)
    IN  IF n = Len(canvas) /\ pc = "done" THEN canvas[n].op = "save"
        ELSE IF q = 0 THEN canvas[n].op = "setFont"
        ELSE IF q = CallsPerPage(a) - 1 THEN canvas[n].op = "showPage"
        ELSE IF a.draw_cell_boxes /\ m = 0
             THEN /\ canvas[n].op = "rect"
                  /\ canvas[n].a = <<GridBox(a, c).x, GridBox(a, c).y,
                                     GridBox(a, c).w, GridBox(a, c).h>>
        ELSE /\ canvas[n].op = "drawCentredString"
             /\ canvas[n].a[1] = GridBox(a, c).x + (GridBox(a, c).w \div 2)
             /\ AnchorOk(c, canvas[n].a[2])

\* The run passed the validation, with margins and gaps that are not
\* negative.
GridAccepted ==
    /\ GridRun
    /\ canvas # NoCanvas
    /\ args.left_margin_mm >= 0 /\ args.top_margin_mm >= 0
    /\ args.col_gap_mm >= 0 /\ args.row_gap_mm >= 0

\* Every call made so far is in the layout; and a finished run has made
\* all the calls of its pages, in boxes that lie inside the page and apart.
GridLayout(AnchorOk(_, _)) ==
    /\ \A n \in 4..Len(canvas) : CallInLayout(n, AnchorOk)
    /\ pc = "done" =>
          /\ Len(canvas) = 4 + args.pages * CallsPerPage(args)
          /\ Cardinality(Calls("showPage")) = args.pages
          /\ BoxesInsidePage(args)
          /\ BoxesApart(args)

AnchorBetween(c, h) == BetweenPaddingLines(args, c, h)

\* C20 as stated: an accepted run emits exactly pages pages, each of
\* rows * cols cells in row-major order; every cell lies inside the page
\* (within the tolerance) and no two overlap; each cell gets exactly
\* repeat_per_cell text draws, drawn at heights between the bottom and the
\* top padding line of the cell.
C20_GridCells == GridAccepted => GridLayout(AnchorBetween)

AnchorShifted(c, h) ==
    /\ h + BaselineShift <= GridBox(args, c).y + GridBox(args, c).h - padding_y(args)
    /\ (GridGeom(args).row_h - 2 * padding_y(args) >= GridUnit
           => BetweenPaddingLines(args, c, h + BaselineShift))

\* C20 amended: the same pages, cells and counts; each text is drawn
\* 0.35 * font_size below a height that is never above the top padding
\* line, and that is between the two padding lines when the row is at
\* least 1 pt higher than twice the padding.
C20_GridCellsShifted == GridAccepted => GridLayout(AnchorShifted)

\* Two pages of the 9 x 3 grid with boxes have been saved, each cell with
\* several texts, the lowest of them drawn below the bottom padding line.
C20_Witness ==
    /\ GridAccepted
    /\ pc = "done"
    /\ args.grid = GridSpecDefault
    /\ args.pages = 2
    /\ args.draw_cell_boxes
    /\ args.repeat_per_cell > 1
    /\ Cardinality(Calls("drawCentredString"))
          = 2 * GridCellCount(args) * args.repeat_per_cell
    /\ \E n \in Calls("drawCentredString") :
          canvas[n].a[2] < GridBox(args, 0).y + padding_y(args)

=============================================================================
